---- MODULE Spec2Model ----
(***************************************************************************)
(* A state-machine model of src/src/components/DrawingCanvas.tsx: the      *)
(* canvas editor component (bitmap, 2D context, pointer handlers, history  *)
(* stack with undo/redo, asynchronous image decodes) and its persistence   *)
(* to the localStorage collection 'drawings'.                              *)
(*                                                                         *)
(* The bitmap is one row of Width pixels; a pixel holds a CSS colour or    *)
(* Transparent.  Every handler is one atomic action (the browser runs an   *)
(* event callback to completion and React re-renders before the next       *)
(* discrete event), so a handler reads the component state of the latest   *)
(* render.  The one callback that outlives its render is the img.onload    *)
(* of the mount effect: it calls the saveToHistory of the first render,    *)
(* whose history is [] and whose historyStep is -1.                        *)
(***************************************************************************)
EXTENDS Integers, Sequences, FiniteSets, TLC

\* ---------------------------------------------------------------- bounds
Width == 2
MaxHist == 3
MaxPending == 2
MaxSaves == 2
MaxClock == 3

\* ------------------------------------------------------ program constants
DefaultBrushSize == 2
EraserFactor == 3
InitialHistoryStep == -1

White == "#ffffff"
Black == "#000000"
Transparent == "transparent"
DefaultTitle == "Untitled Drawing"

Tool == {"pencil", "eraser", "line", "rectangle", "circle"}
Colors == {Black, "#ff0000"}
BrushSizes == {DefaultBrushSize, 5}
Titles == {DefaultTitle, "Sketch"}

NoId == "undefined"
NoUser == "null"
NoPoint == -1

\* ------------------------------------------------------------ the bitmap
Pixels == 1 .. Width
Points == [x : 0 .. Width - 1, y : {0}]

Blank(c) == [p \in Pixels |-> c]

\* ctx.fillRect(0, 0, canvas.width, canvas.height) with fillStyle c
FillRect(c) == Blank(c)

\* ctx.clearRect(0, 0, canvas.width, canvas.height)
ClearRect == Blank(Transparent)

\* ctx.drawImage(img, 0, 0): source-over compositing onto dest
DrawImage(dest, img) ==
  [p \in Pixels |-> IF img[p] = Transparent THEN dest[p] ELSE img[p]]

\* canvas.toDataURL(): a PNG data URI of the whole bitmap (lossless)
ToDataURL(bm) == <<"data:image/png", bm>>

\* the pixel data an Image holds once img.src = url has been decoded
Decoded(url) == url[2]

Min(a, b) == IF a <= b THEN a ELSE b
Max(a, b) == IF a >= b THEN a ELSE b

\* the pixels of the line from (ax, 0) to (bx, 0); a zero-length line is
\* pruned before stroking and paints nothing
Segment(ax, bx) ==
  IF ax = bx THEN {} ELSE {p \in Pixels : Min(ax, bx) + 1 <= p /\ p <= Max(ax, bx) + 1}

\* Math.sqrt(n) for the perfect squares the one-row canvas produces
Sqrt(n) == CHOOSE r \in 0 .. Width : r * r = n

\* the pixels of ctx.arc(cx, 0, radius, 0, 2 * Math.PI) that lie in the row
Arc(cx, radius) ==
  IF radius = 0 THEN {}
  ELSE {p \in Pixels : p = cx - radius + 1 \/ p = cx + radius + 1}

\* ctx.stroke() / ctx.strokeRect(): paint the covered pixels with strokeStyle
Paint(bm, covered, style) ==
  [p \in Pixels |-> IF p \in covered THEN style ELSE bm[p]]

\* ------------------------------------------------------- the 2D context
DefaultCtx ==
  [fillStyle |-> Black, strokeStyle |-> Black, lineWidth |-> 1,
   lineCap |-> "butt", lineJoin |-> "miter", cur |-> NoPoint, covered |-> {}]

BeginPath(c) == [c EXCEPT !.cur = NoPoint, !.covered = {}]
MoveTo(c, x) == [c EXCEPT !.cur = x]
LineTo(c, x) ==
  IF c.cur = NoPoint THEN [c EXCEPT !.cur = x]
  ELSE [c EXCEPT !.cur = x, !.covered = c.covered \cup Segment(c.cur, x)]

\* --------------------------------------------------------------- storage
\* JSON.parse(localStorage.getItem('drawings') || '[]')
ParseDrawings(ls) == IF ls.present THEN ls.value ELSE <<>>

\* localStorage.setItem('drawings', JSON.stringify(drawings))
StoreDrawings(drawings) == [present |-> TRUE, value |-> drawings]

Matching(drawings, ident) == {i \in 1 .. Len(drawings) : drawings[i].id = ident}

\* drawings.findIndex(d => d.id === id), 0-based, -1 when there is none
FindIndex(drawings, ident) ==
  IF Matching(drawings, ident) = {} THEN -1
  ELSE (CHOOSE i \in Matching(drawings, ident) :
          \A j \in Matching(drawings, ident) : i <= j) - 1

\* Date.now().toString()
TimeId(t) == ToString(t)

\* new Date().toISOString()
IsoString(t) == <<"iso", t>>

StoredThumbnail == ToDataURL([p \in Pixels |-> IF p = 1 THEN Black ELSE White])

StoredDrawing ==
  [id |-> TimeId(1), title |-> "Sketch", thumbnail |-> StoredThumbnail,
   createdAt |-> IsoString(1), userId |-> "u1"]

\* a record stored earlier by another user
OtherDrawing ==
  [id |-> TimeId(0), title |-> "Other", thumbnail |-> ToDataURL(Blank(Black)),
   createdAt |-> IsoString(0), userId |-> "u0"]

\* the collection found in storage when it is not absent
StoredDrawings == <<OtherDrawing, StoredDrawing>>

\* a route identifier whose record is not, or no longer, in the collection
UnknownId == "deleted"


\* ----------------------------------------------------- the history stack
\* saveToHistory: history.slice(0, historyStep + 1) with { imageData } pushed
NewHistory(h, step, bm) ==
  Append(SubSeq(h, 1, step + 1), [imageData |-> ToDataURL(bm)])

\* mutant of LastIndex: the cursor is set to the length
LastIndexOffByOne(h) == Len(h)

\* setHistoryStep(newHistory.length - 1)
LastIndex(h) == Len(h) - 1

\* history[step] (0-based, as in the source)
Entry(h, step) == h[step + 1]

\* the guard of undo
CanUndo(step) == step > 0

\* the guard of redo
CanRedo(h, step) == step < Len(h) - 1

UndoStep(step) == step - 1
RedoStep(step) == step + 1

\* mutants of UndoSource and RedoSource: the image is read at the old cursor
UndoSourceStale(h, step) == Entry(h, step).imageData
RedoSourceStale(h, step) == Entry(h, step).imageData

\* img.src = history[newStep].imageData, in undo and in redo
UndoSource(h, step) == Entry(h, UndoStep(step)).imageData
RedoSource(h, step) == Entry(h, RedoStep(step)).imageData

\* mutant of Dragging: stopDrawing without its early return
DraggingAlways(flag) == TRUE

\* if (!isDrawing) return, in stopDrawing
Dragging(flag) == flag

\* mutant of Authenticated: saveDrawing without the check of user
AuthenticatedAlways(u) == TRUE

\* if (!canvas || !user) return, in saveDrawing (the canvas is mounted)
Authenticated(u) == u /= NoUser

\* img.onload of undo / redo: clearRect, then drawImage(img, 0, 0)
Restored(url) == DrawImage(ClearRect, Decoded(url))

\* img.onload of the mount effect: drawImage(img, 0, 0) over the bitmap
Loaded(bm, url) == DrawImage(bm, Decoded(url))

\* the history and historyStep that the mount effect's saveToHistory closes
\* over: the values of the first render
ClosureHistory == <<>>
ClosureStep == InitialHistoryStep

\* ----------------------------------------------------------- persistence
\* drawings[index] = { ...drawings[index], title: drawingTitle, thumbnail }
UpdatedDrawing(d, title, thumbnail) ==
  [d EXCEPT !.title = title, !.thumbnail = thumbnail]

\* mutant of UpdateDrawings: the first record is replaced, not the found one
UpdateDrawingsFirst(drawings, ident, title, thumbnail) ==
  IF FindIndex(drawings, ident) /= -1
  THEN [drawings EXCEPT ![1] = UpdatedDrawing(drawings[1], title, thumbnail)]
  ELSE drawings

\* the update branch of saveDrawing
UpdateDrawings(drawings, ident, title, thumbnail) ==
  IF FindIndex(drawings, ident) /= -1
  THEN [drawings EXCEPT ![FindIndex(drawings, ident) + 1] =
          UpdatedDrawing(drawings[FindIndex(drawings, ident) + 1], title, thumbnail)]
  ELSE drawings

\* the record built by the create branch of saveDrawing
NewDrawing(t, title, thumbnail, userId) ==
  [id |-> TimeId(t), title |-> title, thumbnail |-> thumbnail,
   createdAt |-> IsoString(t), userId |-> userId]

\* mutant of SavedDrawings: the new record is put first (unshift for push)
SavedDrawingsUnshift(drawings, ident, t, title, thumbnail, userId) ==
  IF ident /= NoId
  THEN UpdateDrawings(drawings, ident, title, thumbnail)
  ELSE <<NewDrawing(t, title, thumbnail, userId)>> \o drawings

\* mutant of SavedDrawings: a record that is not found is created
SavedDrawingsUpsert(drawings, ident, t, title, thumbnail, userId) ==
  IF ident /= NoId /\ FindIndex(drawings, ident) /= -1
  THEN UpdateDrawings(drawings, ident, title, thumbnail)
  ELSE Append(drawings, NewDrawing(t, title, thumbnail, userId))

\* the collection saveDrawing writes back
SavedDrawings(drawings, ident, t, title, thumbnail, userId) ==
  IF ident /= NoId
  THEN UpdateDrawings(drawings, ident, title, thumbnail)
  ELSE Append(drawings, NewDrawing(t, title, thumbnail, userId))

\* ------------------------------------------------------------- the state
VARIABLES
  mounted,        \* the mount effect has run
  id,             \* useParams().id
  user,           \* useAuth().user (its id), or NoUser
  localStorage,   \* the item 'drawings'
  now,            \* the clock read by Date.now() and new Date()
  tool, color, brushSize, isDrawing, history, historyStep, startPos,
  drawingTitle,   \* the component's useState fields
  canvas,         \* the bitmap of canvasRef.current
  ctx,            \* the state of canvas.getContext('2d')
  pending,        \* images whose src is set and whose onload has not run,
                  \* in the order they were issued
  link,           \* the last <a download> element that was clicked
  nSaves,         \* observer: calls of saveDrawing
  nStrokes,       \* observer: strokes completed since mount
  plain,          \* observer: no undo and no clear since mount
  probe           \* observer: the undo/redo calls issued since the editor
                  \* was last at rest, and the state it was in then

ctrlVars == <<tool, color, brushSize, drawingTitle>>
histVars == <<history, historyStep>>
envVars == <<id, user, localStorage, now, link>>
obsVars == <<nSaves, nStrokes, plain, probe>>
vars == <<mounted, id, user, localStorage, now, tool, color, brushSize,
          isDrawing, history, historyStep, startPos, drawingTitle, canvas,
          ctx, pending, link, nSaves, nStrokes, plain, probe>>

\* no download has been started
NoLink == [download |-> <<>>, href |-> <<>>]

\* the disabled attribute of the Undo button and of the Redo button
UndoDisabled == historyStep <= 0
RedoDisabled == historyStep >= Len(history) - 1

NoProbe == [phase |-> "none", canvas |-> <<>>, history |-> <<>>, step |-> -1]

\* the snapshot under the cursor, decoded
Current == Decoded(Entry(history, historyStep).imageData)

\* nothing in progress and the bitmap shows the snapshot under the cursor
AtRest ==
  /\ mounted
  /\ ~isDrawing
  /\ pending = <<>>
  /\ historyStep >= 0
  /\ historyStep < Len(history)
  /\ canvas = Current

Init ==
  /\ mounted = FALSE
  /\ id \in {NoId, StoredDrawing.id, UnknownId}
  /\ user \in {NoUser, "u1"}
  /\ localStorage \in {[present |-> FALSE, value |-> <<>>],
                       StoreDrawings(StoredDrawings)}
  /\ id = UnknownId => localStorage.present
  /\ now = 2
  /\ tool = "pencil"
  /\ color = Black
  /\ brushSize = DefaultBrushSize
  /\ isDrawing = FALSE
  /\ history = <<>>
  /\ historyStep = InitialHistoryStep
  /\ startPos = [x |-> 0, y |-> 0]
  /\ drawingTitle = DefaultTitle
  /\ canvas = Blank(Transparent)
  /\ ctx = DefaultCtx
  /\ pending = <<>>
  /\ link = NoLink
  /\ nSaves = 0
  /\ nStrokes = 0
  /\ plain = TRUE
  /\ probe = NoProbe

\* saveToHistory() called from a render whose state is (h, step)
SaveToHistory(h, step, bm) ==
  /\ history' = NewHistory(h, step, bm)
  /\ historyStep' = LastIndex(NewHistory(h, step, bm))


\* ------------------------------------------------------------- observers
\* a handler other than undo and redo ran
ObserveOther == probe' = NoProbe

\* undo or redo moved the cursor: a run of undo/redo calls starts when the
\* editor is at rest and lasts until another handler runs
ObserveCall(call) ==
  probe' =
    IF probe.phase = "none"
    THEN IF ~AtRest THEN NoProbe
         ELSE [phase |-> IF call = "undo" THEN "undo" ELSE "more",
               canvas |-> canvas, history |-> history, step |-> historyStep]
    ELSE [probe EXCEPT !.phase = IF probe.phase = "undo" /\ call = "redo"
                                 THEN "undoRedo" ELSE "more"]

\* --------------------------------------------------------------- actions
\* useEffect(..., [id]) of the first render
Mount ==
  /\ ~mounted
  /\ mounted' = TRUE
  /\ canvas' = FillRect(White)
  /\ ctx' = [DefaultCtx EXCEPT !.fillStyle = White]
  /\ LET drawings == ParseDrawings(localStorage)
         index == FindIndex(drawings, id)
     IN IF id /= NoId
        THEN IF index /= -1
             THEN /\ drawingTitle' = Entry(drawings, index).title
                  /\ pending' = Append(pending,
                       [kind |-> "load", src |-> Entry(drawings, index).thumbnail])
                  /\ UNCHANGED histVars
             ELSE UNCHANGED <<drawingTitle, pending, history, historyStep>>
        ELSE /\ SaveToHistory(history, historyStep, FillRect(White))
             /\ UNCHANGED <<drawingTitle, pending>>
  /\ UNCHANGED <<envVars, tool, color, brushSize, isDrawing, startPos, obsVars>>

\* img.onload of the mount effect: paint the stored thumbnail, then call the
\* saveToHistory of the first render
LoadComplete(i) ==
  /\ i \in 1 .. Len(pending)
  /\ pending[i].kind = "load"
  /\ pending' = SubSeq(pending, 1, i - 1) \o SubSeq(pending, i + 1, Len(pending))
  /\ canvas' = Loaded(canvas, pending[i].src)
  /\ SaveToHistory(ClosureHistory, ClosureStep, Loaded(canvas, pending[i].src))
  /\ ObserveOther
  /\ UNCHANGED <<mounted, envVars, ctrlVars, isDrawing, startPos, ctx,
                 nSaves, nStrokes, plain>>

\* img.onload of undo / redo
RestoreComplete(i) ==
  /\ i \in 1 .. Len(pending)
  /\ pending[i].kind = "restore"
  /\ pending' = SubSeq(pending, 1, i - 1) \o SubSeq(pending, i + 1, Len(pending))
  /\ canvas' = Restored(pending[i].src)
  /\ UNCHANGED <<mounted, envVars, ctrlVars, histVars, isDrawing, startPos,
                 ctx, obsVars>>

undo ==
  /\ mounted
  /\ Len(pending) < MaxPending
  /\ IF CanUndo(historyStep)
     THEN /\ pending' = Append(pending,
               [kind |-> "restore",
                src |-> UndoSource(history, historyStep)])
          /\ historyStep' = UndoStep(historyStep)
          /\ plain' = FALSE
          /\ nStrokes' = 0
          /\ ObserveCall("undo")
     ELSE UNCHANGED <<pending, historyStep, nStrokes, plain, probe>>
  /\ UNCHANGED <<mounted, envVars, ctrlVars, history, isDrawing, startPos,
                 canvas, ctx, nSaves>>

redo ==
  /\ mounted
  /\ Len(pending) < MaxPending
  /\ IF CanRedo(history, historyStep)
     THEN /\ pending' = Append(pending,
               [kind |-> "restore",
                src |-> RedoSource(history, historyStep)])
          /\ historyStep' = RedoStep(historyStep)
          /\ ObserveCall("redo")
     ELSE UNCHANGED <<pending, historyStep, probe>>
  /\ UNCHANGED <<mounted, envVars, ctrlVars, history, isDrawing, startPos,
                 canvas, ctx, nSaves, nStrokes, plain>>

\* mutant of clearCanvas: the answer of confirm is not looked at
clearCanvasUnasked(confirmed) ==
  /\ mounted
  /\ historyStep + 1 < MaxHist
  /\ ctx' = [ctx EXCEPT !.fillStyle = White]
  /\ canvas' = FillRect(White)
  /\ SaveToHistory(history, historyStep, FillRect(White))
  /\ plain' = FALSE
  /\ nStrokes' = 0
  /\ ObserveOther
  /\ UNCHANGED <<mounted, envVars, ctrlVars, isDrawing, startPos, pending,
                 nSaves>>

\* confirmed: what confirm('Are you sure ...') returned
clearCanvas(confirmed) ==
  /\ mounted
  /\ confirmed => historyStep + 1 < MaxHist
  /\ IF confirmed
     THEN /\ ctx' = [ctx EXCEPT !.fillStyle = White]
          /\ canvas' = FillRect(White)
          /\ SaveToHistory(history, historyStep, FillRect(White))
          /\ plain' = FALSE
          /\ nStrokes' = 0
          /\ ObserveOther
     ELSE UNCHANGED <<ctx, canvas, histVars, nStrokes, plain, probe>>
  /\ UNCHANGED <<mounted, envVars, ctrlVars, isDrawing, startPos, pending,
                 nSaves>>

\* onMouseDown; pos is getMousePos(e)
startDrawing(pos) ==
  /\ mounted
  /\ historyStep + 1 < MaxHist
  /\ startPos' = pos
  /\ isDrawing' = TRUE
  /\ LET round == [ctx EXCEPT !.lineCap = "round", !.lineJoin = "round"]
     IN ctx' =
          IF tool = "pencil"
          THEN MoveTo(BeginPath([round EXCEPT !.strokeStyle = color,
                                              !.lineWidth = brushSize]), pos.x)
          ELSE IF tool = "eraser"
          THEN MoveTo(BeginPath([round EXCEPT !.strokeStyle = White,
                                              !.lineWidth = brushSize * EraserFactor]),
                      pos.x)
          ELSE round
  /\ ObserveOther
  /\ UNCHANGED <<mounted, envVars, ctrlVars, histVars, canvas, pending,
                 nSaves, nStrokes, plain>>

\* mutant of draw: a move strokes the path whatever the tool is
drawAnyTool(pos) ==
  /\ mounted
  /\ IF isDrawing
     THEN /\ ctx' = LineTo(ctx, pos.x)
          /\ canvas' = Paint(canvas, LineTo(ctx, pos.x).covered, ctx.strokeStyle)
          /\ ObserveOther
     ELSE UNCHANGED <<ctx, canvas, probe>>
  /\ UNCHANGED <<mounted, envVars, ctrlVars, histVars, isDrawing, startPos,
                 pending, nSaves, nStrokes, plain>>

\* onMouseMove
draw(pos) ==
  /\ mounted
  /\ IF isDrawing /\ tool \in {"pencil", "eraser"}
     THEN /\ ctx' = LineTo(ctx, pos.x)
          /\ canvas' = Paint(canvas, LineTo(ctx, pos.x).covered, ctx.strokeStyle)
          /\ ObserveOther
     ELSE UNCHANGED <<ctx, canvas, probe>>
  /\ UNCHANGED <<mounted, envVars, ctrlVars, histVars, isDrawing, startPos,
                 pending, nSaves, nStrokes, plain>>

\* the context after the shape of a shape tool has been put on it
ShapeCtx(c, t, start, pos) ==
  LET styled == [c EXCEPT !.strokeStyle = color, !.lineWidth = brushSize]
      radius == Sqrt((pos.x - start.x) * (pos.x - start.x)
                     + (pos.y - start.y) * (pos.y - start.y))
  IN IF t = "line" THEN LineTo(MoveTo(BeginPath(styled), start.x), pos.x)
     ELSE IF t = "rectangle" THEN styled
     ELSE IF t = "circle"
     THEN [BeginPath(styled) EXCEPT !.cur = start.x + radius,
                                    !.covered = Arc(start.x, radius)]
     ELSE c

\* the pixels the shape of a shape tool paints on release
ShapePixels(c, t, start, pos) ==
  IF t = "line" \/ t = "circle" THEN ShapeCtx(c, t, start, pos).covered
  ELSE IF t = "rectangle" THEN Segment(start.x, start.x + (pos.x - start.x))
  ELSE {}

\* the bitmap stopDrawing leaves
Released(bm, c, t, start, pos) ==
  Paint(bm, ShapePixels(c, t, start, pos), color)

\* onMouseUp and onMouseLeave
stopDrawing(pos) ==
  /\ mounted
  /\ isDrawing => historyStep + 1 < MaxHist
  /\ IF Dragging(isDrawing)
     THEN /\ ctx' = ShapeCtx(ctx, tool, startPos, pos)
          /\ canvas' = Released(canvas, ctx, tool, startPos, pos)
          /\ isDrawing' = FALSE
          /\ SaveToHistory(history, historyStep,
                           Released(canvas, ctx, tool, startPos, pos))
          /\ nStrokes' = IF plain THEN nStrokes + 1 ELSE 0
          /\ ObserveOther
     ELSE UNCHANGED <<ctx, canvas, isDrawing, histVars, nStrokes, probe>>
  /\ UNCHANGED <<mounted, envVars, ctrlVars, startPos, pending, nSaves, plain>>

setTool(t) ==
  /\ mounted
  /\ tool' = t
  /\ ObserveOther
  /\ UNCHANGED <<mounted, envVars, color, brushSize, drawingTitle, histVars,
                 isDrawing, startPos, canvas, ctx, pending, nSaves, nStrokes, plain>>

setColor(c) ==
  /\ mounted
  /\ color' = c
  /\ ObserveOther
  /\ UNCHANGED <<mounted, envVars, tool, brushSize, drawingTitle, histVars,
                 isDrawing, startPos, canvas, ctx, pending, nSaves, nStrokes, plain>>

setBrushSize(n) ==
  /\ mounted
  /\ brushSize' = n
  /\ ObserveOther
  /\ UNCHANGED <<mounted, envVars, tool, color, drawingTitle, histVars,
                 isDrawing, startPos, canvas, ctx, pending, nSaves, nStrokes, plain>>

setDrawingTitle(t) ==
  /\ mounted
  /\ drawingTitle' = t
  /\ ObserveOther
  /\ UNCHANGED <<mounted, envVars, tool, color, brushSize, histVars,
                 isDrawing, startPos, canvas, ctx, pending, nSaves, nStrokes, plain>>

saveDrawing ==
  /\ mounted
  /\ nSaves < MaxSaves
  /\ nSaves' = nSaves + 1
  /\ IF Authenticated(user)
     THEN localStorage' =
            StoreDrawings(SavedDrawings(ParseDrawings(localStorage), id, now,
                                        drawingTitle, ToDataURL(canvas), user))
     ELSE UNCHANGED localStorage
  /\ ObserveOther
  /\ UNCHANGED <<mounted, id, user, now, link, ctrlVars, histVars, isDrawing,
                 startPos, canvas, ctx, pending, nStrokes, plain>>

\* mutant of downloadDrawing: the exported bitmap is also recorded
downloadDrawingRecorded ==
  /\ mounted
  /\ link' = [download |-> <<drawingTitle, ".png">>, href |-> ToDataURL(canvas)]
  /\ SaveToHistory(history, historyStep, canvas)
  /\ ObserveOther
  /\ UNCHANGED <<mounted, id, user, localStorage, now, ctrlVars, isDrawing,
                 startPos, canvas, ctx, pending, nSaves, nStrokes, plain>>

\* the Download button: a link named after the title, holding the bitmap
downloadDrawing ==
  /\ mounted
  /\ link' = [download |-> <<drawingTitle, ".png">>, href |-> ToDataURL(canvas)]
  /\ ObserveOther
  /\ UNCHANGED <<mounted, id, user, localStorage, now, ctrlVars, histVars,
                 isDrawing, startPos, canvas, ctx, pending, nSaves, nStrokes,
                 plain>>

\* time passes
Tick ==
  /\ now < MaxClock
  /\ now' = now + 1
  /\ UNCHANGED <<mounted, id, user, localStorage, link, ctrlVars, histVars,
                 isDrawing, startPos, canvas, ctx, pending, obsVars>>

\* The handlers are checked in four groups, each with the mount effect and
\* the pointer handlers, so that every state space stays enumerable.

\* the history stack: records, undo, redo, clear and the image decodes
Next ==
  \/ Mount
  \/ \E i \in 1 .. MaxPending : LoadComplete(i)
  \/ \E i \in 1 .. MaxPending : RestoreComplete(i)
  \/ undo
  \/ redo
  \/ \E confirmed \in BOOLEAN : clearCanvas(confirmed)
  \/ \E pos \in Points : startDrawing(pos)
  \/ \E pos \in Points : draw(pos)
  \/ \E pos \in Points : stopDrawing(pos)

Spec == Init /\ [][Next]_vars

\* the tools: the pointer handlers under every tool
NextTools ==
  \/ Mount
  \/ \E i \in 1 .. MaxPending : LoadComplete(i)
  \/ \E pos \in Points : startDrawing(pos)
  \/ \E pos \in Points : draw(pos)
  \/ \E pos \in Points : stopDrawing(pos)
  \/ \E t \in Tool : setTool(t)

SpecTools == Init /\ [][NextTools]_vars

\* persistence: Save, with the controls and the strokes that decide what
\* is saved
NextStore ==
  \/ Mount
  \/ \E i \in 1 .. MaxPending : LoadComplete(i)
  \/ \E pos \in Points : startDrawing(pos)
  \/ \E pos \in Points : draw(pos)
  \/ \E pos \in Points : stopDrawing(pos)
  \/ \E n \in BrushSizes : setBrushSize(n)
  \/ \E t \in Titles : setDrawingTitle(t)
  \/ saveDrawing
  \/ Tick

SpecStore == Init /\ [][NextStore]_vars

\* what leaves the editor: Save and Download
NextFiles ==
  \/ Mount
  \/ \E i \in 1 .. MaxPending : LoadComplete(i)
  \/ \E pos \in Points : startDrawing(pos)
  \/ \E pos \in Points : draw(pos)
  \/ \E pos \in Points : stopDrawing(pos)
  \/ \E t \in Titles : setDrawingTitle(t)
  \/ saveDrawing
  \/ downloadDrawing

SpecFiles == Init /\ [][NextFiles]_vars


\* ---------------------------------------------------------------- claims

\* C1: in every reachable state the history cursor is at least -1 and at
\* most length(history) - 1.
CursorInRange == -1 <= historyStep /\ historyStep <= Len(history) - 1

\* two undos have moved the cursor from the end of a three-entry history to
\* its start, with both restorations still pending
CursorInRangeWitness ==
  Len(history) >= 3 /\ historyStep = 0 /\ Len(pending) = 2

\* C2 (as claimed): after N strokes with no undo (and no clear) since mount,
\* once the initial load has completed, the history has N + 1 entries and
\* the cursor is N; stated for a mount without identifier or with the
\* identifier of a stored record.
StrokesCounted ==
  (/\ mounted
   /\ plain
   /\ pending = <<>>
   /\ (id = NoId \/ FindIndex(ParseDrawings(localStorage), id) /= -1))
  => (Len(history) = nStrokes + 1 /\ historyStep = nStrokes)

\* a step that records a snapshot: the end of a drag, a confirmed clear, the
\* completion of the initial load
RecordStep ==
  \/ \E pos \in Points : isDrawing /\ stopDrawing(pos)
  \/ clearCanvas(TRUE)
  \/ \E i \in 1 .. MaxPending : LoadComplete(i)

\* C3 (as claimed): a record with the cursor at c, below the last index,
\* leaves exactly the entries 0..c followed by the new snapshot, with the
\* cursor on it; and from a cursor on the last index every redo is a no-op
\* and the cursor stays on the last index until an undo.
RecordTruncates ==
  [][/\ (RecordStep /\ 0 <= historyStep /\ historyStep < Len(history) - 1)
          => /\ history' = Append(SubSeq(history, 1, historyStep + 1),
                                  [imageData |-> ToDataURL(canvas')])
             /\ historyStep' = Len(history') - 1
     /\ (historyStep = Len(history) - 1 /\ redo) => UNCHANGED vars
     /\ (historyStep = Len(history) - 1 /\ ~(undo /\ historyStep > 0))
          => historyStep' = Len(history') - 1]_vars

\* C4 (as claimed): undo at rest followed immediately by redo leaves, once
\* no decode is pending, the bitmap, the history and the cursor as they were
\* before the undo.
UndoRedoRestores ==
  (probe.phase = "undoRedo" /\ pending = <<>>)
  => (canvas = probe.canvas /\ history = probe.history
      /\ historyStep = probe.step)

\* C5 (as claimed): after a run of undo/redo calls issued from rest, once no
\* decode is pending the bitmap is the snapshot under the cursor, whatever
\* the order in which the decodes completed.
LastWriteWins ==
  (probe.phase /= "none" /\ pending = <<>>) => canvas = Current

\* C6: undo with cursor <= 0, which is when the Undo button is disabled,
\* changes neither history, cursor, bitmap nor the pending decodes; with
\* cursor > 0 it lowers the cursor by one, keeps history and bitmap, and
\* starts one decode of the snapshot at the new cursor; the completion of a
\* restoration leaves the bitmap equal to the decoded snapshot alone.
UndoContract ==
  [][/\ undo =>
          /\ UndoDisabled <=> historyStep <= 0
          /\ IF UndoDisabled
             THEN UNCHANGED <<history, historyStep, canvas, pending>>
             ELSE /\ historyStep' = historyStep - 1
                  /\ history' = history
                  /\ canvas' = canvas
                  /\ pending' = Append(pending,
                       [kind |-> "restore", src |-> history'[historyStep' + 1].imageData])
     /\ \A i \in 1 .. MaxPending :
          (RestoreComplete(i) /\ probe.phase = "undo")
            => canvas' = pending[i].src[2]]_vars

\* an undo issued at rest has been restored: the bitmap is the snapshot
\* under the lowered cursor and differs from the bitmap before the undo
UndoContractWitness ==
  /\ probe.phase = "undo"
  /\ pending = <<>>
  /\ historyStep = probe.step - 1
  /\ canvas = Current
  /\ canvas /= probe.canvas

\* C7: redo with cursor >= length - 1, which is when the Redo button is
\* disabled, changes neither history, cursor, bitmap nor the pending
\* decodes; with cursor < length - 1 it raises the cursor by one, keeps
\* history and bitmap, and starts one decode of the snapshot at the new
\* cursor; the completion of a restoration leaves the bitmap equal to the
\* decoded snapshot alone.
RedoContract ==
  [][/\ redo =>
          /\ RedoDisabled <=> historyStep >= Len(history) - 1
          /\ IF RedoDisabled
             THEN UNCHANGED <<history, historyStep, canvas, pending>>
             ELSE /\ historyStep' = historyStep + 1
                  /\ history' = history
                  /\ canvas' = canvas
                  /\ pending' = Append(pending,
                       [kind |-> "restore", src |-> history'[historyStep' + 1].imageData])
     /\ \A i \in 1 .. MaxPending :
          (RestoreComplete(i) /\ probe.phase = "undoRedo")
            => canvas' = pending[i].src[2]]_vars

\* an undo and a redo issued at rest have both been restored, the redo's
\* decode last: the cursor and the bitmap are back where they were
RedoContractWitness ==
  /\ probe.phase = "undoRedo"
  /\ pending = <<>>
  /\ historyStep = probe.step
  /\ canvas = probe.canvas
  /\ canvas = Current

\* C8: pointer-down sets the in-progress flag and captures the start point;
\* pointer-up or pointer-leave while dragging clears the flag and records
\* exactly one snapshot, under every tool; pointer-up or pointer-leave while
\* idle changes nothing.
PointerMachine ==
  [][/\ \A pos \in Points :
          startDrawing(pos) => (isDrawing' /\ startPos' = pos)
     /\ \A pos \in Points :
          stopDrawing(pos) =>
            IF isDrawing
            THEN /\ ~isDrawing'
                 /\ history' = Append(SubSeq(history, 1, historyStep + 1),
                                      [imageData |-> ToDataURL(canvas')])
                 /\ historyStep' = historyStep + 1
            ELSE UNCHANGED <<isDrawing, startPos, canvas, ctx, history,
                             historyStep>>]_vars

\* a drag with the circle tool has ended (only a circle paints the second
\* pixel alone): the editor is idle and the drag's snapshot is the last entry
PointerMachineWitness ==
  /\ ~isDrawing
  /\ tool = "circle"
  /\ nStrokes >= 1
  /\ canvas = [p \in Pixels |-> IF p = 2 THEN Black ELSE White]
  /\ historyStep = Len(history) - 1
  /\ canvas = Current

\* C9: Save with no authenticated user leaves the stored collection as it
\* was, with and without an identifier in the route.
SaveNeedsUser ==
  [][(saveDrawing /\ user = NoUser) => localStorage' = localStorage]_vars

\* Save has run with no user, in edit mode, on a title that differs from the
\* stored record's
SaveNeedsUserWitness ==
  /\ user = NoUser
  /\ nSaves >= 1
  /\ id /= NoId
  /\ FindIndex(ParseDrawings(localStorage), id) /= -1
  /\ drawingTitle /= Entry(ParseDrawings(localStorage),
                           FindIndex(ParseDrawings(localStorage), id)).title

\* C10: Save with a user and no identifier in the route writes the stored
\* collection with one record appended: the current title, the snapshot of
\* the current bitmap, the current time as identifier and as creation
\* timestamp, and the user's identifier.
SaveCreates ==
  [][(saveDrawing /\ user /= NoUser /\ id = NoId)
       => /\ localStorage'.present
          /\ localStorage'.value =
               Append(ParseDrawings(localStorage),
                      [id |-> ToString(now), title |-> drawingTitle,
                       thumbnail |-> <<"data:image/png", canvas>>,
                       createdAt |-> <<"iso", now>>, userId |-> user])]_vars

\* a created record follows the records that were stored before, and carries
\* a drawn bitmap and an edited title
SaveCreatesWitness ==
  /\ id = NoId
  /\ user /= NoUser
  /\ nSaves >= 1
  /\ Len(ParseDrawings(localStorage)) = Len(StoredDrawings) + 1
  /\ SubSeq(ParseDrawings(localStorage), 1, Len(StoredDrawings)) = StoredDrawings
  /\ ParseDrawings(localStorage)[Len(StoredDrawings) + 1].title /= DefaultTitle
  /\ ParseDrawings(localStorage)[Len(StoredDrawings) + 1].thumbnail
       /= ToDataURL(Blank(White))
  /\ ParseDrawings(localStorage)[Len(StoredDrawings) + 1].userId = user


\* C11: Save with a user and an identifier that matches a stored record
\* writes the collection with the same length and order, every other record
\* unchanged, and the matching record keeping its identifier, creation
\* timestamp and owner while its title and snapshot become the current ones.
SaveUpdates ==
  [][(/\ saveDrawing
      /\ user /= NoUser
      /\ id /= NoId
      /\ \E k \in 1 .. Len(ParseDrawings(localStorage)) :
           ParseDrawings(localStorage)[k].id = id)
       => LET old == ParseDrawings(localStorage)
              new == ParseDrawings(localStorage')
              k == CHOOSE i \in 1 .. Len(old) :
                     old[i].id = id /\ \A j \in 1 .. i - 1 : old[j].id /= id
          IN /\ Len(new) = Len(old)
             /\ \A i \in 1 .. Len(old) : i /= k => new[i] = old[i]
             /\ new[k].id = old[k].id
             /\ new[k].createdAt = old[k].createdAt
             /\ new[k].userId = old[k].userId
             /\ new[k].title = drawingTitle
             /\ new[k].thumbnail = <<"data:image/png", canvas>>]_vars

\* an update has been saved: the second record carries a new title and
\* a drawn bitmap and keeps its identifier, timestamp and owner, and the
\* record before it is as it was
SaveUpdatesWitness ==
  /\ id = StoredDrawing.id
  /\ user /= NoUser
  /\ nSaves >= 1
  /\ Len(ParseDrawings(localStorage)) = 2
  /\ ParseDrawings(localStorage)[1] = OtherDrawing
  /\ ParseDrawings(localStorage)[2].id = StoredDrawing.id
  /\ ParseDrawings(localStorage)[2].createdAt = StoredDrawing.createdAt
  /\ ParseDrawings(localStorage)[2].userId = StoredDrawing.userId
  /\ ParseDrawings(localStorage)[2].title /= StoredDrawing.title
  /\ ParseDrawings(localStorage)[2].thumbnail /= StoredDrawing.thumbnail

\* C12: for an editor opened without an identifier, a second or later Save
\* with a user updates the record the first Save created, so it leaves the
\* number of stored records as it found it, and the records stored before
\* the first Save are followed by exactly one record.
SaveOnce ==
  [][(/\ saveDrawing
      /\ user /= NoUser
      /\ id = NoId
      /\ nSaves >= 1)
       => /\ Len(ParseDrawings(localStorage')) = Len(ParseDrawings(localStorage))
          /\ ParseDrawings(localStorage')[Len(ParseDrawings(localStorage'))].id
               = ParseDrawings(localStorage)[Len(ParseDrawings(localStorage))].id
     ]_vars

\* C13: the identifier of a created record is fresh, so no two records of
\* the stored collection share an identifier, whether or not the clock has
\* advanced between two Saves.
IdsDistinct ==
  \A i, j \in 1 .. Len(ParseDrawings(localStorage)) :
    i /= j => ParseDrawings(localStorage)[i].id /= ParseDrawings(localStorage)[j].id

\* C14: when mount has completed, with its decode if it started one, and
\* nothing has been drawn, cleared or recorded by the user yet, the history
\* has exactly one entry, the cursor is 0 and the entry is the bitmap; this
\* also when the identifier matches no stored record.
MountRecords ==
  [][(\/ Mount /\ pending' = <<>>
      \/ /\ \E i \in 1 .. Len(pending) : LoadComplete(i)
         /\ history = <<>>
         /\ ~isDrawing)
       => /\ Len(history') = 1
          /\ historyStep' = 0
          /\ Decoded(history'[1].imageData) = canvas']_vars

\* C15: Clear is gated by the confirmation. Declined, it leaves the bitmap,
\* the history and the cursor as they were; confirmed, it leaves the bitmap
\* all white and the history equal to the entries up to the old cursor
\* followed by one snapshot of that white bitmap, with the cursor on it.
\* Clear can be taken in every state of the mounted editor.
ClearContract ==
  /\ [](/\ (mounted /\ historyStep + 1 < MaxHist) => ENABLED clearCanvas(TRUE)
        /\ mounted => ENABLED clearCanvas(FALSE))
  /\ [][/\ clearCanvas(FALSE)
             => /\ canvas' = canvas
                /\ history' = history
                /\ historyStep' = historyStep
        /\ clearCanvas(TRUE)
             => /\ canvas' = [p \in Pixels |-> White]
                /\ history' = SubSeq(history, 1, historyStep + 1)
                                \o <<[imageData |->
                                        <<"data:image/png", canvas'>>]>>
                /\ historyStep' = Len(history') - 1]_vars

\* a confirmed Clear has followed a painted bitmap: the white snapshot under
\* the cursor is the last entry and follows an entry that is not white
ClearContractWitness ==
  /\ mounted
  /\ ~isDrawing
  /\ pending = <<>>
  /\ Len(history) >= 2
  /\ historyStep = Len(history) - 1
  /\ canvas = [p \in Pixels |-> White]
  /\ history[historyStep + 1].imageData = <<"data:image/png", canvas>>
  /\ history[historyStep].imageData /= <<"data:image/png", canvas>>

\* C16: history entries are immutable. No step changes or removes an entry
\* at an index up to the cursor, and a step that changes the history at all
\* is a record: the entries up to the cursor followed by one new entry.
EntriesKept ==
  [][/\ Len(history') >= historyStep + 1
     /\ \A i \in 1 .. historyStep + 1 : history'[i] = history[i]
     /\ history' /= history => Len(history') = historyStep + 2]_vars

\* C17: Save with a user and an identifier that matches no stored record
\* adds, changes and removes no record: the content of the stored
\* collection after the Save is its content before.
SaveSkips ==
  [][(/\ saveDrawing
      /\ user /= NoUser
      /\ id /= NoId
      /\ \A k \in 1 .. Len(ParseDrawings(localStorage)) :
           ParseDrawings(localStorage)[k].id /= id)
       => ParseDrawings(localStorage') = ParseDrawings(localStorage)]_vars

\* such a Save has run on a collection that holds records, with a title
\* that was typed and a bitmap that was drawn on
SaveSkipsWitness ==
  /\ id = UnknownId
  /\ user /= NoUser
  /\ nSaves >= 1
  /\ ParseDrawings(localStorage) = StoredDrawings
  /\ drawingTitle /= DefaultTitle
  /\ canvas /= [p \in Pixels |-> White]

\* C18: with a shape tool (line, rectangle, circle) the bitmap is unchanged
\* by pointer-down and by every pointer-move of the drag, and the pointer-up
\* or pointer-leave that ends the drag paints the shape between the captured
\* start point and the release point, once. With a free-hand tool (pencil,
\* eraser) a pointer-move while dragging strokes the path up to the pointer.
\* A pointer-move while idle leaves the bitmap alone for every tool.
ShapeOnRelease ==
  [][\A pos \in Points :
       LET shape == tool \in {"line", "rectangle", "circle"}
           freehand == tool \in {"pencil", "eraser"}
           distance == Max(pos.x - startPos.x, startPos.x - pos.x)
           outline == IF tool = "circle" THEN Arc(startPos.x, distance)
                      ELSE Segment(startPos.x, pos.x)
           path == IF ctx.cur = NoPoint THEN ctx.covered
                   ELSE ctx.covered \cup Segment(ctx.cur, pos.x)
       IN /\ (shape /\ startDrawing(pos)) => canvas' = canvas
          /\ (shape /\ draw(pos)) => canvas' = canvas
          /\ (shape /\ isDrawing /\ stopDrawing(pos))
               => /\ canvas' = [p \in Pixels |->
                                  IF p \in outline THEN color ELSE canvas[p]]
                  /\ ~isDrawing'
          /\ (~isDrawing /\ stopDrawing(pos)) => canvas' = canvas
          /\ (freehand /\ isDrawing /\ draw(pos))
               => canvas' = [p \in Pixels |->
                               IF p \in path THEN ctx.strokeStyle ELSE canvas[p]]
          /\ (~isDrawing /\ draw(pos)) => canvas' = canvas]_vars

\* a drag with the rectangle tool has ended on a blank canvas and painted
\* every pixel (the rectangle tool leaves the path of the context alone,
\* and no free-hand or line stroke has put a path on it)
ShapeOnReleaseWitness ==
  /\ mounted
  /\ id = NoId
  /\ tool = "rectangle"
  /\ ~isDrawing
  /\ ctx.cur = NoPoint
  /\ ctx.covered = {}
  /\ historyStep >= 1
  /\ canvas = [p \in Pixels |-> Black]

\* C19: whenever the editor is quiescent (mounted, no drag in progress, no
\* decode pending, at least one history entry) the bitmap is the snapshot
\* under the cursor; so what was recorded while a decode was pending is
\* still on the bitmap after that decode has completed.
QuiescentShowsCursor ==
  (/\ mounted
   /\ ~isDrawing
   /\ pending = <<>>
   /\ Len(history) >= 1
   /\ historyStep \in 0 .. Len(history) - 1)
    => canvas = Decoded(history[historyStep + 1].imageData)

\* C20: Save and Download are read-only with respect to the editor. Neither
\* changes the bitmap, the history, the cursor, the in-progress flag, the
\* tool, the colour or the brush width, and Download leaves the stored
\* collection as it is.
ReadOnlyExports ==
  [][/\ (saveDrawing \/ downloadDrawing)
          => /\ canvas' = canvas
             /\ history' = history
             /\ historyStep' = historyStep
             /\ isDrawing' = isDrawing
             /\ tool' = tool
             /\ color' = color
             /\ brushSize' = brushSize
     /\ downloadDrawing => localStorage' = localStorage]_vars

\* a painted bitmap has been saved and downloaded during a drag: the drag
\* is still in progress, the stored record and the link hold the bitmap
ReadOnlyExportsWitness ==
  /\ isDrawing
  /\ user /= NoUser
  /\ nSaves >= 1
  /\ canvas /= [p \in Pixels |-> White]
  /\ link.href = <<"data:image/png", canvas>>
  /\ \E k \in 1 .. Len(ParseDrawings(localStorage)) :
       /\ ParseDrawings(localStorage)[k].thumbnail = link.href
       /\ ParseDrawings(localStorage)[k].userId = user
  /\ Len(history) >= 1
  /\ canvas /= Decoded(history[historyStep + 1].imageData)

====
